---------------------------- MODULE Spec2Model ----------------------------
(***************************************************************************)
(* kube-tunnel-proxy: main (the Orchestrator) resolves one client          *)
(* configuration per context and starts one PortForward goroutine (a       *)
(* Session) per tunnel; every Session lists the pods of its selector,      *)
(* installs its own os.Interrupt handler, and runs a port forwarder until  *)
(* its stop channel is closed.                                             *)
(*                                                                         *)
(* Two revisions of the program are modelled, told apart by `variant':     *)
(*   "main.go"  - configuration in code (a map), PortForward is handed     *)
(*                pointers to the loop variables `context' and `tunnel';   *)
(*   "part_000" - configuration read from kube-tunnel-proxy.toml,          *)
(*                PortForward is handed copies.                            *)
(***************************************************************************)
EXTENDS Integers, Sequences, FiniteSets, TLC

\* ---------------------------------------------------------------- bounds
MaxContexts == 2      \* context groups in a configuration
MaxSessions == 2      \* tunnels declared in a configuration, all groups together

Variants == {"main.go", "part_000"}
TunnelIds == 1..MaxSessions
ContextIds == 1..MaxContexts

VARIABLES
    variant,     \* which revision of the program runs
    declared,    \* the configuration as written: declared[g] = number of tunnels of group g
    config,      \* the `config' variable of main: the groups the program holds
    cfgErr,      \* ioutil.ReadFile or toml.Decode returned an error
    mainpc,      \* position of main
    remaining,   \* groups the outer loop has not reached yet
    cur,         \* group of the running outer iteration
    ti,          \* position of the inner loop in the group's tunnels
    ctxVar,      \* the loop variable `context' (one for the whole outer loop)
    tunVar,      \* the loop variable `tunnel' of each group's inner loop
    wg,          \* sync.WaitGroup counter
    resolved,    \* resolved[g]: how many times ClientConfig() succeeded for group g
    authErr,     \* groups whose ClientConfig()/NewForConfig failed
    proc,        \* the process: running or exited, with exit code and cause
    sess,        \* the PortForward goroutine of each tunnel
    log,         \* lines printed by each Session (log[t]) and by main (log[0])
    intrActive   \* history: Sessions that were active when an interrupt was delivered

vars == <<variant, declared, config, cfgErr, mainpc, remaining, cur, ti, ctxVar,
          tunVar, wg, resolved, authErr, proc, sess, log, intrActive>>

mainVars == <<config, cfgErr, mainpc, remaining, cur, ti, ctxVar, tunVar, resolved, authErr>>

\* ---------------------------------------------------------- configuration
RECURSIVE SumTo(_, _)
SumTo(seq, n) == IF n = 0 THEN 0 ELSE seq[n] + SumTo(seq, n - 1)

Total(seq) == SumTo(seq, Len(seq))

\* The configurations the model runs: up to MaxContexts groups, each with a
\* tunnel or more, MaxSessions tunnels in all (for main.go: the map literal of
\* lines 37-46 stands for any such map).
Shapes == { s \in UNION { [1..n -> 1..MaxSessions] : n \in 1..MaxContexts } :
              Total(s) <= MaxSessions }

\* Tunnels are numbered in configuration order: group g holds First(c,g)..Last(c,g).
First(c, g) == SumTo(c, g - 1) + 1
Last(c, g) == SumTo(c, g)
TunnelsOf(c, g) == First(c, g)..Last(c, g)
Declared == 1..Total(declared)
GroupOf(t) == CHOOSE g \in 1..Len(declared) : t \in TunnelsOf(declared, g)

\* type Tunnel struct: the fields of declared tunnel t.  Tunnels 1 and 2 select
\* the same pods and the same pod port; every tunnel has its own local port.
Tunnel(t) == [Namespace |-> "ns",
              Selector  |-> IF t <= 2 THEN "app=x" ELSE "app=y",
              PodPort   |-> 9090,
              LocalPort |-> 8000 + t]

ContextName(g) == <<"c", g>>

\* The prefixes of the declared groups: what toml.Decode may leave in `config'
\* when it returns an error part-way.
Prefixes(c) == { SubSeq(c, 1, n) : n \in 0..Len(c) }


\* ------------------------------------------------------------------ state
\* A goroutine that PortForward has not been started for.
NoSession == [pc        |-> "NotStarted",
              ctx       |-> 0,        \* parameter `context' (by value in part_000)
              tunnel    |-> 0,        \* parameter `tunnel' (by value in part_000)
              cfg       |-> 0,        \* parameters `cfg' and `clientSet': the group they were made for
              queried   |-> <<>>,     \* the ListOptions queries sent to the cluster
              listed    |-> "no",     \* the answer to the query: "no" (none yet), "error", "ok"
              pods      |-> <<>>,     \* pods.Items
              podName   |-> "",       \* pods.Items[0].Name
              handler   |-> FALSE,    \* signal.Notify(signals, os.Interrupt) is in force
              sigBuf    |-> 0,        \* signals held by `signals' (capacity 1)
              watcher   |-> "none",   \* the goroutine of lines 112-118
              stopChan  |-> "nil",
              closes    |-> 0,        \* close(stopChan) calls
              readyChan |-> "nil",
              channel   |-> "none",   \* the upgraded connection (streamConn)
              listener  |-> "none",   \* the local listener
              ports     |-> <<>>,     \* the port pairs handed to portforward.New
              dones     |-> 0,        \* wg.Done() calls
              ended     |-> "none"]   \* how PortForward ended

Running == proc.state = "running"

Started(t) == sess[t].pc # "NotStarted"
Terminal(t) == sess[t].pc = "Terminal"
Failed(t) == sess[t].pc = "Failed"
\* Started by the Orchestrator and not yet Terminal.
Active(t) == Started(t) /\ ~Terminal(t) /\ ~Failed(t)
ChannelOpen(t) == sess[t].channel = "open"
Listening(t) == sess[t].listener = "open"

\* What a Session reads through its `context' and `tunnel' parameters: main.go
\* passes &context and &tunnel, so a read yields what the loop variable holds then.
ReadContext(t) == IF variant = "main.go" THEN ctxVar ELSE sess[t].ctx
ReadTunnel(t) == IF variant = "main.go" THEN tunVar[GroupOf(t)] ELSE sess[t].tunnel

\* The process ends: main returned, a goroutine panicked, os.Exit, or an
\* os.Interrupt that nobody is notified of.
\* With the process go its goroutines, its signal registrations and its sockets.
Killed(S) == [t \in TunnelIds |->
                [S[t] EXCEPT !.handler = FALSE, !.sigBuf = 0,
                             !.watcher = IF @ = "none" THEN @ ELSE "killed",
                             !.channel = IF @ = "open" THEN "closed" ELSE @,
                             !.listener = IF @ = "open" THEN "closed" ELSE @]]

Exit(code, cause, by, S) ==
    /\ proc' = [state |-> "exited", code |-> code, cause |-> cause, by |-> by]
    /\ sess' = Killed(S)

Printf(who, line) == log' = [log EXCEPT ![who] = Append(@, line)]

Init ==
    /\ variant \in Variants
    /\ declared \in Shapes
    /\ config = IF variant = "main.go" THEN declared ELSE <<>>
    /\ cfgErr = FALSE
    /\ mainpc = IF variant = "main.go" THEN "Loop" ELSE "ReadFile"
    /\ remaining = IF variant = "main.go" THEN 1..Len(declared) ELSE {}
    /\ cur = 0
    /\ ti = 0
    /\ ctxVar = 0
    /\ tunVar = [g \in ContextIds |-> 0]
    /\ wg = 0
    /\ resolved = [g \in ContextIds |-> 0]
    /\ authErr = {}
    /\ proc = [state |-> "running", code |-> 0, cause |-> "none", by |-> 0]
    /\ sess = [t \in TunnelIds |-> NoSession]
    /\ log = [t \in 0..MaxSessions |-> <<>>]
    /\ intrActive = {}

\* ------------------------------------------------------------------- main
\* Where main stands once an outer iteration is over: the next one, or wg.Wait().
LoopOrWait(rem) == IF rem = {} THEN "Wait" ELSE "Loop"

\* part_000 47-50: ioutil.ReadFile; an error is printed and main goes on.
ReadFile ==
    /\ Running /\ mainpc = "ReadFile"
    /\ \E ok \in BOOLEAN :
         /\ cfgErr' = ~ok
         /\ IF ok THEN log' = log ELSE Printf(0, [kind |-> "Error", what |-> "ReadFile"])
    /\ mainpc' = "Decode"
    /\ UNCHANGED <<variant, declared, config, remaining, cur, ti, ctxVar, tunVar, wg,
                   resolved, authErr, proc, sess, intrActive>>

\* part_000 52-57: toml.Decode of what was read, an error is printed and main
\* goes on; fmt.Println(config).  Nothing was read after a ReadFile error, and
\* a decoder that fails part-way leaves a prefix of the groups in config.
Decode ==
    /\ Running /\ mainpc = "Decode"
    /\ \E c \in Prefixes(declared) :
         /\ cfgErr => c = <<>>
         /\ config' = c
         /\ LET err == ~cfgErr /\ c # declared
                line == [kind |-> "Config", config |-> c]
            IN  /\ cfgErr' = (cfgErr \/ err)
                /\ log' = [log EXCEPT ![0] =
                             IF err THEN @ \o <<[kind |-> "Error", what |-> "Decode"], line>>
                             ELSE Append(@, line)]
         /\ remaining' = 1..Len(c)
         /\ mainpc' = LoopOrWait(1..Len(c))
    /\ UNCHANGED <<variant, declared, cur, ti, ctxVar, tunVar, wg, resolved, authErr,
                   proc, sess, intrActive>>

\* NextContext with the failure handled as part_000 47-50 handles a read error:
\* printed, and the loop goes on to the next group.
NextContextContinue ==
    /\ Running /\ mainpc = "Loop" /\ remaining # {}
    /\ \E g \in remaining :
         /\ \A h \in remaining : g <= h
         /\ ctxVar' = g
         /\ cur' = g
         /\ remaining' = remaining \ {g}
         /\ \E ok \in BOOLEAN :
              IF ok
              THEN /\ resolved' = [resolved EXCEPT ![g] = @ + 1]
                   /\ Printf(0, [kind |-> "SettingUp", ctx |-> ContextName(g), n |-> config[g]])
                   /\ mainpc' = IF config[g] = 0 THEN LoopOrWait(remaining \ {g}) ELSE "Tunnels"
                   /\ ti' = 1
                   /\ UNCHANGED <<authErr, proc, sess>>
              ELSE /\ authErr' = authErr \cup {g}
                   /\ log' = [log EXCEPT ![0] =
                        @ \o <<[kind |-> "SettingUp", ctx |-> ContextName(g), n |-> config[g]],
                               [kind |-> "Error", what |-> "AuthError"]>>]
                   /\ mainpc' = LoopOrWait(remaining \ {g})
                   /\ UNCHANGED <<resolved, ti, proc, sess>>
    /\ UNCHANGED <<variant, declared, config, cfgErr, tunVar, wg, intrActive>>

\* main.go 49-65, part_000 60-76: the head of one outer iteration.  The slice of
\* part_000 is walked in order; the range over the map of main.go yields the
\* groups in an order of its own, and for main.go the groups of `declared' are
\* numbered in the order this run's range yields them.  The group's
\* configuration and client are resolved; either failing panics.
NextContext ==
    /\ Running /\ mainpc = "Loop" /\ remaining # {}
    /\ \E g \in remaining :
         /\ \A h \in remaining : g <= h
         /\ ctxVar' = g
         /\ cur' = g
         /\ remaining' = remaining \ {g}
         /\ \E ok \in BOOLEAN :
              IF ok
              THEN /\ resolved' = [resolved EXCEPT ![g] = @ + 1]
                   /\ Printf(0, [kind |-> "SettingUp", ctx |-> ContextName(g), n |-> config[g]])
                   /\ mainpc' = IF config[g] = 0 THEN LoopOrWait(remaining \ {g}) ELSE "Tunnels"
                   /\ ti' = 1
                   /\ UNCHANGED <<authErr, proc, sess>>
              ELSE /\ authErr' = authErr \cup {g}
                   /\ log' = [log EXCEPT ![0] =
                        @ \o <<[kind |-> "SettingUp", ctx |-> ContextName(g), n |-> config[g]],
                               [kind |-> "panic", what |-> "AuthError"]>>]
                   /\ Exit(2, "AuthError", 0, sess)
                   /\ UNCHANGED <<resolved, mainpc, ti>>
    /\ UNCHANGED <<variant, declared, config, cfgErr, tunVar, wg, intrActive>>

\* StartSession with `cfg' and `clientSet' declared once, before the outer loop,
\* and assigned only when still nil: every Session gets the first group's.
StartSessionSharedCfg ==
    /\ Running /\ mainpc = "Tunnels"
    /\ LET t == First(config, cur) + ti - 1
       IN  /\ tunVar' = [tunVar EXCEPT ![cur] = t]
           /\ wg' = wg + 1
           /\ sess' = [sess EXCEPT ![t] = [NoSession EXCEPT !.pc = "Resolving",
                                                            !.ctx = cur, !.tunnel = t,
                                                            !.cfg = 1]]
    /\ ti' = ti + 1
    /\ mainpc' = IF ti = config[cur] THEN LoopOrWait(remaining) ELSE "Tunnels"
    /\ UNCHANGED <<variant, declared, config, cfgErr, remaining, cur, ctxVar, resolved,
                   authErr, proc, log, intrActive>>

\* main.go 67-70, part_000 78-81: one inner iteration: the loop variable is
\* assigned, wg.Add(1), go PortForward(...).  `cfg' and `clientSet' are
\* variables of the outer iteration (main.go 52 and 62, part_000 63 and 73) and
\* are handed over by value: the Session gets those of the running iteration.
StartSession ==
    /\ Running /\ mainpc = "Tunnels"
    /\ LET t == First(config, cur) + ti - 1
       IN  /\ tunVar' = [tunVar EXCEPT ![cur] = t]
           /\ wg' = wg + 1
           /\ sess' = [sess EXCEPT ![t] = [NoSession EXCEPT !.pc = "Resolving",
                                                            !.ctx = cur, !.tunnel = t,
                                                            !.cfg = cur]]
    /\ ti' = ti + 1
    /\ mainpc' = IF ti = config[cur] THEN LoopOrWait(remaining) ELSE "Tunnels"
    /\ UNCHANGED <<variant, declared, config, cfgErr, remaining, cur, ctxVar, resolved,
                   authErr, proc, log, intrActive>>

\* main.go 72-73, part_000 83-84: wg.Wait() returns when the counter is zero, and
\* main returns: the process exits with code 0.
WaitReturn ==
    /\ Running /\ mainpc = "Wait"
    /\ wg = 0
    /\ mainpc' = "Done"
    /\ Exit(0, "return", 0, sess)
    /\ UNCHANGED <<variant, declared, config, cfgErr, remaining, cur, ti, ctxVar, tunVar,
                   wg, resolved, authErr, log, intrActive>>

\* ---------------------------------------------------------------- Session
sessFrame == <<variant, declared, mainVars, intrActive>>

\* What the cluster may answer to a pod query: no pod, or several.
PodLists == {<<>>, <<"p2", "p1">>}

\* panic(err.Error()) in PortForward: the deferred calls run (signal.Stop once it
\* is deferred, then wg.Done), the message goes to stderr and the process exits 2.
Panic(t, rec, cause) ==
    /\ wg' = wg - 1
    /\ Printf(t, [kind |-> "panic", what |-> cause])
    /\ Exit(2, cause, t, [sess EXCEPT ![t] = [rec EXCEPT !.pc = "Failed", !.ended = cause,
                                                        !.handler = FALSE, !.dones = @ + 1]])

\* NotFound without its return statement: the line is printed and
\* pods.Items[0] of the empty list panics.
NotFoundNoReturn(t, rec) ==
    /\ wg' = wg - 1
    /\ log' = [log EXCEPT ![t] = @ \o
                 <<[kind |-> "NoPodsFound", ctx |-> ContextName(ReadContext(t)),
                    selector |-> Tunnel(ReadTunnel(t)).Selector],
                   [kind |-> "panic", what |-> "IndexOutOfRange"]>>]
    /\ Exit(2, "IndexOutOfRange", t,
            [sess EXCEPT ![t] = [rec EXCEPT !.pc = "Failed", !.ended = "IndexOutOfRange",
                                            !.dones = @ + 1]])

\* main.go 86-89, part_000 97-100: no pod: one line is printed and PortForward
\* returns; the deferred wg.Done() runs.
NotFound(t, rec) ==
    /\ Printf(t, [kind |-> "NoPodsFound", ctx |-> ContextName(ReadContext(t)),
                  selector |-> Tunnel(ReadTunnel(t)).Selector])
    /\ sess' = [sess EXCEPT ![t] = [rec EXCEPT !.pc = "Terminal", !.ended = "NotFound",
                                               !.dones = @ + 1]]
    /\ wg' = wg - 1
    /\ UNCHANGED proc

\* Found taking the last pod of the list for the first.
FoundLastPod(t, rec) ==
    /\ Printf(t, [kind |-> "Forwarding", ctx |-> ContextName(ReadContext(t)),
                  localPort |-> Tunnel(ReadTunnel(t)).LocalPort,
                  pod |-> rec.pods[Len(rec.pods)], podPort |-> Tunnel(ReadTunnel(t)).PodPort])
    /\ sess' = [sess EXCEPT ![t] = [rec EXCEPT !.pc = "Notify",
                                               !.podName = rec.pods[Len(rec.pods)]]]
    /\ UNCHANGED <<wg, proc>>

\* main.go 90-92, part_000 101-103: the first pod is the target; the
\* "Forwarding" line is printed.
Found(t, rec) ==
    /\ Printf(t, [kind |-> "Forwarding", ctx |-> ContextName(ReadContext(t)),
                  localPort |-> Tunnel(ReadTunnel(t)).LocalPort,
                  pod |-> rec.pods[1], podPort |-> Tunnel(ReadTunnel(t)).PodPort])
    /\ sess' = [sess EXCEPT ![t] = [rec EXCEPT !.pc = "Notify", !.podName = rec.pods[1]]]
    /\ UNCHANGED <<wg, proc>>

\* main.go 78-92, part_000 89-103: the pod query and its three outcomes.
Resolve(t) ==
    /\ Running /\ sess[t].pc = "Resolving"
    /\ LET q == [client |-> sess[t].cfg,
                 namespace |-> Tunnel(ReadTunnel(t)).Namespace,
                 selector |-> Tunnel(ReadTunnel(t)).Selector]
           rec == [sess[t] EXCEPT !.queried = Append(@, q)]
       IN  \/ Panic(t, [rec EXCEPT !.listed = "error"], "PodQueryError")
           \/ \E pods \in PodLists :
                LET got == [rec EXCEPT !.listed = "ok", !.pods = pods]
                IN  IF Len(pods) < 1 THEN NotFound(t, got) ELSE Found(t, got)
    /\ UNCHANGED sessFrame

\* InstallHandler with signal.Notify put after the call of ForwardPorts, which
\* blocks: the watcher waits on a channel that no signal is sent to.
InstallHandlerLate(t) ==
    /\ Running /\ sess[t].pc = "Notify"
    /\ sess' = [sess EXCEPT ![t].pc = "Upgrading", ![t].stopChan = "open",
                            ![t].readyChan = "open", ![t].watcher = "wait"]
    /\ UNCHANGED <<wg, proc, log, sessFrame>>

\* main.go 94-107, part_000 105-118: the stop and ready channels are made, the
\* Session asks to be notified of os.Interrupt, and the watcher goroutine starts.
InstallHandler(t) ==
    /\ Running /\ sess[t].pc = "Notify"
    /\ sess' = [sess EXCEPT ![t].pc = "Upgrading", ![t].stopChan = "open",
                            ![t].readyChan = "open", ![t].handler = TRUE,
                            ![t].watcher = "wait"]
    /\ UNCHANGED <<wg, proc, log, sessFrame>>

\* A local port is free when no Session of this process listens on it (another
\* process may hold it too: binding may fail in any case).
PortFree(t, port) == \A u \in TunnelIds \ {t} :
                       sess[u].listener = "open" => sess[u].ports[1] # port

\* main.go 109-147, part_000 120-158: up to the point where ForwardPorts blocks.
\*  - spdy.RoundTripperFor: on an error one line is printed and os.Exit(1) ends
\*    the process (no deferred call runs);
\*  - the dialer, the port pair and the logger are built from the tunnel, and
\*    portforward.New is called: its error panics;
\*  - ForwardPorts dials (the HTTP upgrade that yields the multiplexed
\*    connection), binds the local listener and closes the ready channel: its
\*    error (the dial failed, or no listener could be bound and the connection
\*    was closed again) panics.
Upgrade(t) ==
    /\ Running /\ sess[t].pc = "Upgrading"
    /\ LET ports == <<Tunnel(ReadTunnel(t)).LocalPort, Tunnel(ReadTunnel(t)).PodPort>>
           rec == [sess[t] EXCEPT !.ports = ports]
       IN  \/ /\ Printf(t, [kind |-> "Error", what |-> "TransportError"])
              /\ Exit(1, "TransportError", t,
                      [sess EXCEPT ![t].pc = "Failed", ![t].ended = "TransportError"])
              /\ UNCHANGED wg
           \/ Panic(t, rec, "ForwarderError")
           \/ Panic(t, rec, "ForwardPortsError")
           \/ /\ PortFree(t, ports[1])
              /\ sess' = [sess EXCEPT ![t] = [rec EXCEPT !.pc = "Forwarding",
                            !.channel = "open", !.listener = "open", !.readyChan = "closed"]]
              /\ UNCHANGED <<wg, proc, log>>
    /\ UNCHANGED sessFrame

\* Stop without the deferred signal.Stop(signals): the registration outlives
\* the Session.
StopNoSignalStop(t, how) ==
    /\ sess' = [sess EXCEPT ![t].pc = "Terminal", ![t].listener = "closed",
                            ![t].channel = "closed", ![t].ended = how,
                            ![t].dones = @ + 1]
    /\ wg' = wg - 1
    /\ UNCHANGED <<proc, log, sessFrame>>

\* ForwardPorts returns nil, having closed the listener and the connection, and
\* PortForward returns: the deferred signal.Stop(signals) and wg.Done() run.
Stop(t, how) ==
    /\ sess' = [sess EXCEPT ![t].pc = "Terminal", ![t].listener = "closed",
                            ![t].channel = "closed", ![t].ended = how,
                            ![t].handler = FALSE, ![t].dones = @ + 1]
    /\ wg' = wg - 1
    /\ UNCHANGED <<proc, log, sessFrame>>

\* main.go 144-148, part_000 155-159: ForwardPorts blocks until the stop channel
\* is closed.
StopForwarding(t) ==
    /\ Running /\ sess[t].pc = "Forwarding"
    /\ sess[t].stopChan = "closed"
    /\ Stop(t, "Stopped")

\* main.go 144-148, part_000 155-159: ... or until the connection to the pod is
\* lost, which the forwarder hands to its error handler, returning nil.
ConnLost(t) ==
    /\ Running /\ sess[t].pc = "Forwarding"
    /\ Stop(t, "ConnLost")

\* WatcherRecv with the "Stopped forwarding" line left out.
WatcherRecvNoLine(t) ==
    /\ Running /\ sess[t].watcher = "wait"
    /\ sess[t].sigBuf > 0
    /\ sess' = [sess EXCEPT ![t].sigBuf = @ - 1, ![t].watcher = "closing"]
    /\ UNCHANGED <<wg, proc, log, sessFrame>>

\* main.go 102-104, part_000 113-115: the watcher receives a signal; stopChan is
\* never nil, so it prints the "Stopped forwarding" line.
WatcherRecv(t) ==
    /\ Running /\ sess[t].watcher = "wait"
    /\ sess[t].sigBuf > 0
    /\ Printf(t, [kind |-> "Stopped", ctx |-> ContextName(ReadContext(t)),
                  pod |-> sess[t].podName, podPort |-> Tunnel(ReadTunnel(t)).PodPort])
    /\ sess' = [sess EXCEPT ![t].sigBuf = @ - 1, ![t].watcher = "closing"]
    /\ UNCHANGED <<wg, proc, sessFrame>>

\* main.go 105, part_000 116: close(stopChan); closing a closed channel panics.
WatcherClose(t) ==
    /\ Running /\ sess[t].watcher = "closing"
    /\ LET S == [sess EXCEPT ![t].watcher = "done", ![t].stopChan = "closed",
                             ![t].closes = @ + 1]
       IN  IF sess[t].stopChan = "closed"
           THEN Exit(2, "CloseOfClosedChannel", t, S)
           ELSE sess' = S /\ UNCHANGED proc
    /\ UNCHANGED <<wg, log, sessFrame>>

\* ------------------------------------------------------------ environment
\* The operator sends os.Interrupt.  Every channel registered with signal.Notify
\* gets it unless its buffer is full (main.go 97-98, part_000 108-109); when no
\* channel is registered the runtime's default applies and the process dies.
Deliver ==
    /\ Running
    /\ IF \E t \in TunnelIds : sess[t].handler
       THEN /\ sess' = [t \in TunnelIds |->
                          IF sess[t].handler THEN [sess[t] EXCEPT !.sigBuf = 1] ELSE sess[t]]
            /\ UNCHANGED proc
       ELSE Exit(130, "Interrupt", 0, sess)
    /\ UNCHANGED <<variant, declared, mainVars, wg, log>>

Interrupt == Deliver /\ UNCHANGED intrActive

\* The same, keeping the history of who was active when the signal was sent.
InterruptH ==
    /\ Deliver
    /\ intrActive' = IF \E t \in TunnelIds : sess[t].handler
                     THEN intrActive \cup {t \in TunnelIds : Active(t)}
                     ELSE intrActive

\* ------------------------------------------------------------ specification
MainStep == ReadFile \/ Decode \/ NextContext \/ StartSession \/ WaitReturn

SessionStep(t) ==
    Resolve(t) \/ InstallHandler(t) \/ Upgrade(t) \/ StopForwarding(t)

WatcherStep(t) == WatcherRecv(t) \/ WatcherClose(t)

Next ==
    \/ MainStep
    \/ \E t \in TunnelIds : SessionStep(t) \/ WatcherStep(t) \/ ConnLost(t)
    \/ Interrupt

Spec == Init /\ [][Next]_vars

NextH ==
    \/ MainStep
    \/ \E t \in TunnelIds : SessionStep(t) \/ WatcherStep(t) \/ ConnLost(t)
    \/ InterruptH

\* The Go scheduler runs every goroutine that can run; the operator and the
\* network owe the program nothing.
FairSpec ==
    /\ Init /\ [][NextH]_vars
    /\ WF_vars(MainStep)
    /\ \A t \in TunnelIds : WF_vars(SessionStep(t)) /\ WF_vars(WatcherStep(t))

\* ------------------------------------------------------------- properties
\* The process ended by itself (not killed by a signal nobody had asked for).
Exited == ~Running /\ proc.cause # "Interrupt"

\* C1: every Session that is active when an interrupt is delivered (whatever its
\* phase) eventually is Terminal with its listener closed (or the process is gone).
C1_InterruptStopsAll ==
    \A t \in TunnelIds :
        (t \in intrActive) ~> ((Terminal(t) /\ ~Listening(t)) \/ ~Running)

\* C2: the failure of one Session ends that Session only: every other Session
\* that is active goes on running.
C2_FailureIsLocal ==
    \A s, t \in TunnelIds : (s # t /\ Failed(s) /\ Active(t)) => Running

\* C3: when a group's connection configuration cannot be resolved, the Sessions
\* started earlier keep running and the later groups are still processed: the
\* process does not end with a group unprocessed or a Session active.
C3_AuthErrorIsLocal ==
    authErr # {} => \/ Running
                    \/ remaining = {} /\ \A t \in TunnelIds : ~Active(t)

\* C4: a Session whose query matched no pod is Terminal, has made no stop
\* channel, interrupt handler, forwarder, Channel or listener, has printed the
\* "No pods found" line and nothing else, has called wg.Done() once, and is not
\* what ended the process.
NoPodsFoundLines(t) == {i \in DOMAIN log[t] : log[t][i].kind = "NoPodsFound"}

MatchedNoPod(t) == sess[t].listed = "ok" /\ sess[t].pods = <<>>

C4_NotFoundIsClean ==
    \A t \in TunnelIds :
        MatchedNoPod(t) =>
            /\ Terminal(t) /\ sess[t].ended = "NotFound"
            /\ sess[t].stopChan = "nil" /\ sess[t].readyChan = "nil"
            /\ ~sess[t].handler /\ sess[t].watcher = "none"
            /\ sess[t].ports = <<>>
            /\ sess[t].channel = "none" /\ sess[t].listener = "none"
            /\ Cardinality(NoPodsFoundLines(t)) = 1 /\ Len(log[t]) = 1
            /\ sess[t].dones = 1
            /\ proc.by # t

\* C4's case: one Session ended with no pod while another one forwards.
C4_Witness ==
    \E t, u \in TunnelIds :
        /\ MatchedNoPod(t) /\ Terminal(t)
        /\ sess[u].pc = "Forwarding" /\ Running

\* C5: one Session per tunnel, started once, and whenever the process has
\* exited no started Session is short of Terminal.
C5_ExitOnlyWhenAllTerminal ==
    Exited => \A t \in TunnelIds : ~Active(t)

\* C6: however many interrupts arrive and whenever, the stop channel of a Session
\* is closed at most once, wg.Done() is called at most once per Session and
\* exactly once by a Terminal one, the wait counter counts the Sessions that have
\* not called it and never is negative, and an interrupt that leaves the
\* process alive changes nothing of a Session that is Terminal.
C6_Counts ==
    /\ wg >= 0
    /\ wg = Cardinality({t \in TunnelIds : Started(t) /\ sess[t].dones = 0})
    /\ \A t \in TunnelIds :
         /\ sess[t].closes <= 1
         /\ sess[t].dones <= 1
         /\ Terminal(t) => sess[t].dones = 1

C6_StopOnce ==
    /\ []C6_Counts
    /\ [][(Interrupt /\ Running') => \A t \in TunnelIds : Terminal(t) => sess'[t] = sess[t]]_vars

\* C6's case: a Session is Terminal and never was signalled (its watcher still
\* waits on an empty buffer), while another Session has taken one interrupt
\* (its watcher is done) and holds a second one: both came after the first
\* Session was Terminal.
C6_Witness ==
    \E t, u \in TunnelIds :
        /\ Terminal(t) /\ sess[t].watcher = "wait" /\ sess[t].sigBuf = 0
        /\ sess[u].watcher = "done" /\ sess[u].sigBuf = 1 /\ sess[u].closes = 1
        /\ Running

\* C7: the exit code is 0 when every declared tunnel's Session ended by NotFound
\* or by the stop signal, and it is not 0 when a group's connection configuration
\* failed.
CleanShutdown == \A t \in Declared : sess[t].ended \in {"NotFound", "Stopped"}

C8_ConfigErrorAborts ==
    cfgErr => /\ ~Running /\ proc.code # 0
              /\ \A g \in ContextIds : resolved[g] = 0
              /\ \A t \in TunnelIds : ~Started(t)

\* C9: when the process has exited, every declared tunnel has a line of its own
\* that identifies it by its context and its selector or ports (the dump of the
\* whole configuration, part_000 57, is no line of a tunnel).
Identifies(line, t) ==
    LET tun == Tunnel(t)
        ctx == ContextName(GroupOf(t))
    IN  \/ /\ line.kind = "NoPodsFound"
           /\ line.ctx = ctx /\ line.selector = tun.Selector
        \/ /\ line.kind = "Forwarding"
           /\ line.ctx = ctx /\ line.localPort = tun.LocalPort /\ line.podPort = tun.PodPort

Logged(t) == \E who \in DOMAIN log : \E i \in DOMAIN log[who] : Identifies(log[who][i], t)

C9_EveryTunnelLogged ==
    Exited => \A t \in Declared : Logged(t)

\* C10: the Sessions are independent: when one Session ends, the Channel and the
\* listener that another Session holds stay open.
C10_Independent ==
    [][\A s, t \in TunnelIds :
         (s # t /\ Active(s) /\ ~Active(s)' /\ ChannelOpen(t) /\ Listening(t))
            => (ChannelOpen(t)' /\ Listening(t)')]_vars

\* C12: whatever the interleaving of the start loop with the Sessions, what a
\* Session has read is of the tunnel it was started for: the namespace and the
\* selector of its query, the context, selector and ports of its lines, the
\* port pair it forwards; and no two Sessions serve the same local port.
OwnLine(line, t) ==
    LET tun == Tunnel(t)
        ctx == ContextName(GroupOf(t))
    IN  /\ line.kind = "NoPodsFound" => (line.ctx = ctx /\ line.selector = tun.Selector)
        /\ line.kind = "Forwarding" =>
              (line.ctx = ctx /\ line.localPort = tun.LocalPort /\ line.podPort = tun.PodPort)
        /\ line.kind = "Stopped" => (line.ctx = ctx /\ line.podPort = tun.PodPort)

OwnValues(t) ==
    /\ \A i \in DOMAIN sess[t].queried :
          /\ sess[t].queried[i].namespace = Tunnel(t).Namespace
          /\ sess[t].queried[i].selector = Tunnel(t).Selector
    /\ \A i \in DOMAIN log[t] : OwnLine(log[t][i], t)
    /\ sess[t].ports # <<>> => sess[t].ports = <<Tunnel(t).LocalPort, Tunnel(t).PodPort>>

C13_QueriesOnce ==
    \A t \in TunnelIds :
        /\ Len(sess[t].queried) <= 1
        /\ (Started(t) /\ sess[t].pc # "Resolving") => Len(sess[t].queried) = 1
        /\ sess[t].channel # "none" =>
              (Len(sess[t].queried) = 1 /\ sess[t].listed = "ok" /\ sess[t].pods # <<>>)
        /\ sess[t].podName # "" => sess[t].podName = Head(sess[t].pods)
        /\ \A i \in DOMAIN log[t] :
              log[t][i].kind \in {"Forwarding", "Stopped"} => log[t][i].pod = Head(sess[t].pods)

\* C13's case: a Session forwards to the first of two pods while another one has
\* lost its connection and stays ended.
C13_Witness ==
    \E t, u \in TunnelIds :
        /\ sess[t].pc = "Forwarding" /\ Len(sess[t].pods) = 2
        /\ sess[t].podName = "p2"
        /\ sess[u].ended = "ConnLost" /\ Running

\* C14: a group's connection configuration is resolved at most once, and once
\* before any of its Sessions is started; a Session holds, and queries the
\* cluster with, the configuration and client of its own group; when the outer
\* loop is over every group of the configuration was resolved once.
C14_ConfigOncePerGroup ==
    /\ \A g \in ContextIds : resolved[g] <= 1
    /\ \A t \in TunnelIds :
          Started(t) => /\ resolved[GroupOf(t)] = 1
                        /\ sess[t].cfg = GroupOf(t)
                        /\ \A i \in DOMAIN sess[t].queried :
                              sess[t].queried[i].client = GroupOf(t)
    /\ mainpc \in {"Wait", "Done"} => \A g \in 1..Len(config) : resolved[g] = 1

\* C14's case: the Sessions of two groups have both sent their query.
C14_Witness ==
    \E s, t \in TunnelIds :
        /\ Started(s) /\ Started(t) /\ GroupOf(s) # GroupOf(t)
        /\ Len(sess[s].queried) = 1 /\ Len(sess[t].queried) = 1
        /\ Running

\* C15: a Session that holds a Channel or a listener has its interrupt handler
\* installed, its stop channel made and its watcher started; and a signal that
\* the Session's channel holds leads to its stop channel being closed (unless
\* the process ends first).
C15_Stoppable ==
    \A t \in TunnelIds :
        (ChannelOpen(t) \/ Listening(t)) =>
            (sess[t].handler /\ sess[t].watcher # "none" /\ sess[t].stopChan # "nil")

C15_InterruptNotLost ==
    /\ []C15_Stoppable
    /\ \A t \in TunnelIds :
          (sess[t].sigBuf = 1) ~> (sess[t].stopChan = "closed" \/ ~Running)

\* C15's case: an interrupt has reached a Session that has installed its handler
\* and has no Channel yet, and whose watcher has not received it.
C15_Witness ==
    \E t \in TunnelIds :
        /\ sess[t].pc = "Upgrading" /\ sess[t].channel = "none"
        /\ sess[t].handler /\ sess[t].sigBuf = 1 /\ sess[t].watcher = "wait"
        /\ Running

\* C16: a Session prints "Stopped forwarding" at most once, after its
\* "Forwarding" line, and has printed it when its stop channel is closed; a
\* Session that ended with NotFound has not printed it.
StoppedLines(t) == {i \in DOMAIN log[t] : log[t][i].kind = "Stopped"}

ForwardingLines(t) == {i \in DOMAIN log[t] : log[t][i].kind = "Forwarding"}

C16_StoppedLine ==
    \A t \in TunnelIds :
        /\ Cardinality(StoppedLines(t)) <= 1
        /\ \A i \in StoppedLines(t) : \E j \in ForwardingLines(t) : j < i
        /\ sess[t].stopChan = "closed" => StoppedLines(t) # {}
        /\ sess[t].ended = "NotFound" => StoppedLines(t) = {}

\* C16's case: one Session was stopped by an interrupt, another one ended with
\* NotFound.
C16_Witness ==
    \E t, u \in TunnelIds :
        /\ sess[t].stopChan = "closed" /\ StoppedLines(t) # {}
        /\ sess[u].ended = "NotFound"
        /\ Running

=============================================================================
